---- MODULE Spec2Model ----
(***************************************************************************)
(* Model of the cluster turndown manager (KubernetesTurndownManager) and   *)
(* of the Flattener, the annotation-based reversible mutation of           *)
(* deployments, daemon sets and cron jobs.                                 *)
(*                                                                         *)
(* Strings the code formats or parses are sequences of one-character       *)
(* strings, so that fmt.Sprintf, strconv.ParseInt, strconv.ParseBool and   *)
(* intstr.Parse are computed and not assumed.  A Go pointer is a sequence  *)
(* of length at most one: << >> is nil, <<v>> points to v.  A Go map is a  *)
(* function whose DOMAIN is the set of keys present; an object listed from *)
(* the API server has a nil map exactly when the map is empty (the field   *)
(* is omitted when empty), and a lookup in a nil map finds nothing.        *)
(***************************************************************************)
EXTENDS Integers, Sequences, FiniteSets, TLC

VARIABLES
    deployments,   \* API server: deployment name -> object
    daemonSets,    \* API server: daemon set name -> object
    cronJobs,      \* API server: cron job name -> object
    pools,         \* Provider: node pool name -> [autoScaling, size, saved]
    nodes,         \* API server: node name -> pool id (Provider.GetPoolID)
    nodePools,     \* ktdm.nodePools
    autoScaling,   \* ktdm.autoScaling (*bool)
    log,           \* history: the last two operations, newest last
    turndown,      \* API server: pod spec of the kubecost-turndown deployment
    inflight       \* a flattener routine between receiving the listed object
                   \* and applying its patch: << >> or <<[op, name, listed, ...]>>

vars == <<deployments, daemonSets, cronJobs, pools, nodes, nodePools, autoScaling, log,
          turndown, inflight>>

\* ------------------------------------------------------------------ bounds

MaxReplicas == 2

\* ------------------------------------------------------------------ strings

Digits == <<"0", "1", "2", "3", "4", "5", "6", "7", "8", "9">>

DigitVal(c) == (CHOOSE i \in 1..10 : Digits[i] = c) - 1

IsDigit(c) == \E i \in 1..10 : Digits[i] = c

MaxInt32 == 2147483647

\* fmt.Sprintf("%d", n) and strconv.Itoa(n)
RECURSIVE Itoa(_)
Itoa(n) ==
    IF n < 0 THEN <<"-">> \o Itoa(0 - n)
    ELSE IF n < 10 THEN <<Digits[n + 1]>>
    ELSE Itoa(n \div 10) \o <<Digits[(n % 10) + 1]>>

RECURSIVE DigitsValue(_)
DigitsValue(s) ==
    IF s = << >> THEN 0
    ELSE DigitsValue(SubSeq(s, 1, Len(s) - 1)) * 10 + DigitVal(s[Len(s)])

\* strconv.ParseInt(s, 10, 32) and strconv.Atoi(s): an optional sign and
\* then one or more decimal digits, within the range of the integer type
ParseInt(s) ==
    LET signed == s /= << >> /\ s[1] \in {"+", "-"}
        body   == IF signed THEN Tail(s) ELSE s
        wellFormed == body /= << >> /\ \A i \in 1..Len(body) : IsDigit(body[i])
        mag    == IF wellFormed THEN DigitsValue(body) ELSE 0
        val    == IF signed /\ s[1] = "-" THEN 0 - mag ELSE mag
    IN  IF wellFormed /\ val <= MaxInt32 /\ val >= 0 - MaxInt32 - 1
        THEN [ok |-> TRUE, val |-> val]
        ELSE [ok |-> FALSE, val |-> 0]

StrTrue == <<"t", "r", "u", "e">>
StrFalse == <<"f", "a", "l", "s", "e">>
StrEmpty == << >>

\* fmt.Sprintf("%t", b)
FormatBool(b) == IF b THEN StrTrue ELSE StrFalse

\* strconv.ParseBool
ParseBool(s) ==
    IF s \in {<<"1">>, <<"t">>, <<"T">>, <<"T", "R", "U", "E">>, StrTrue, <<"T", "r", "u", "e">>}
    THEN [ok |-> TRUE, val |-> TRUE]
    ELSE IF s \in {<<"0">>, <<"f">>, <<"F">>, <<"F", "A", "L", "S", "E">>, StrFalse,
                   <<"F", "a", "l", "s", "e">>}
    THEN [ok |-> TRUE, val |-> FALSE]
    ELSE [ok |-> FALSE, val |-> FALSE]

\* ------------------------------------------------------------------ intstr.IntOrString

FromInt(n) == [type |-> "Int", intVal |-> n, strVal |-> StrEmpty]
FromString(s) == [type |-> "String", intVal |-> 0, strVal |-> s]

\* intstr.IntOrString.String()
IntOrStringString(v) == IF v.type = "String" THEN v.strVal ELSE Itoa(v.intVal)

\* intstr.Parse
IntstrParse(s) == IF ParseInt(s).ok THEN FromInt(ParseInt(s).val) ELSE FromString(s)

\* json.Marshal followed by the server's decoding of an IntOrString: only the
\* member selected by Type is written
IntOrStringJSON(v) == IF v.type = "Int" THEN FromInt(v.intVal) ELSE FromString(v.strVal)

\* ------------------------------------------------------------------ maps

EmptyMap == [x \in {} |-> StrEmpty]

Has(m, k) == k \in DOMAIN m

\* m[k] = v
MapSet(m, k, v) == [x \in (DOMAIN m) \cup {k} |-> IF x = k THEN v ELSE m[x]]

\* delete(m, k)
MapDelete(m, k) == [x \in (DOMAIN m) \ {k} |-> m[x]]

\* v := m[k] : the zero value (the empty string) when k is absent
MapGet(m, k) == IF Has(m, k) THEN m[k] ELSE StrEmpty

\* the annotation keys
ClusterAutoScalerSafeEvict == "cluster-autoscaler.kubernetes.io/safe-to-evict"
KubecostTurnDownReplicas == "kubecost.kubernetes.io/turn-down-replicas"
KubecostTurnDownRollout == "kubecost.kubernetes.io/turn-down-rollout"
KubecostTurnDownSafeEvictFlag == "kubecost.kubernetes.io/safe-evict"
KubecostTurnDownJobSuspend == "kubecost.kubernetes.io/job-suspend"
\* an annotation of the workload's owner, unrelated to turndown
OtherKey == "owner"

CaptureKeys ==
    {KubecostTurnDownReplicas, KubecostTurnDownRollout, KubecostTurnDownSafeEvictFlag,
     KubecostTurnDownJobSuspend}

\* ------------------------------------------------------------------ patches

\* The part of strategicpatch.CreateTwoWayMergePatch that concerns a map.
\* json.Marshal omits an empty map (omitempty), so when the mutation
\* empties a map that had entries the patch sets the whole map to null;
\* otherwise it has one entry per key whose value differs, <<v>> to set it
\* and << >> (null) to delete it
MapDiff(old, new) ==
    [null |-> DOMAIN old /= {} /\ DOMAIN new = {},
     keys |-> [k \in {x \in (DOMAIN old) \cup (DOMAIN new) :
                        /\ DOMAIN new /= {}
                        /\ ~(Has(old, x) /\ Has(new, x) /\ old[x] = new[x])}
                |-> IF Has(new, k) THEN <<new[k]>> ELSE << >>]]

\* The server's merge of such a map patch into the live map
MapMerge(live, diff) ==
    IF diff.null THEN EmptyMap
    ELSE [k \in ((DOMAIN live) \ {x \in DOMAIN diff.keys : diff.keys[x] = << >>})
                \cup {x \in DOMAIN diff.keys : diff.keys[x] /= << >>}
            |-> IF Has(diff.keys, k) THEN diff.keys[k][1] ELSE live[k]]

\* A scalar field of the patch: << >> when unchanged, <<v>> when set to v
FieldDiff(old, new) == IF old = new THEN << >> ELSE <<new>>

FieldMerge(live, diff) == IF diff = << >> THEN live ELSE diff[1]

\* json.Marshal of the fields of a deployment the flattener may change
DeploymentJSON(d) ==
    [replicas |-> d.replicas,
     maxUnavailable |-> IF d.rolling /\ d.maxUnavailable /= << >>
                        THEN <<IntOrStringJSON(d.maxUnavailable[1])>> ELSE << >>,
     rolling |-> d.rolling,
     annotations |-> d.annotations,
     templateAnnotations |-> d.templateAnnotations]

\* CreateTwoWayMergePatch(oldData, newData, deployment)
DeploymentPatch(old, new) ==
    LET o == DeploymentJSON(old)
        n == DeploymentJSON(new)
    IN  [replicas |-> FieldDiff(o.replicas, n.replicas),
         strategy |-> FieldDiff([rolling |-> o.rolling, maxUnavailable |-> o.maxUnavailable],
                                [rolling |-> n.rolling, maxUnavailable |-> n.maxUnavailable]),
         annotations |-> MapDiff(o.annotations, n.annotations),
         templateAnnotations |-> MapDiff(o.templateAnnotations, n.templateAnnotations)]

\* Deployments(ns).Patch(name, MergePatchType, patch) on the live object
ApplyDeploymentPatch(live, patch) ==
    [live EXCEPT
        !.replicas = FieldMerge(@, patch.replicas),
        !.rolling = IF patch.strategy = << >> THEN @ ELSE patch.strategy[1].rolling,
        !.maxUnavailable = IF patch.strategy = << >> THEN @ ELSE patch.strategy[1].maxUnavailable,
        !.annotations = MapMerge(@, patch.annotations),
        !.templateAnnotations = MapMerge(@, patch.templateAnnotations)]

\* CreateTwoWayMergePatch(oldData, newData, daemonset)
DaemonSetPatch(old, new) ==
    [templateAnnotations |-> MapDiff(old.templateAnnotations, new.templateAnnotations)]

\* DaemonSets(ns).Patch(name, MergePatchType, patch) on the live object
ApplyDaemonSetPatch(live, patch) ==
    [live EXCEPT !.templateAnnotations = MapMerge(@, patch.templateAnnotations)]

\* CreateTwoWayMergePatch(oldData, newData, job)
CronJobPatch(old, new) ==
    [suspend |-> FieldDiff(old.suspend, new.suspend),
     annotations |-> MapDiff(old.annotations, new.annotations)]

\* CronJobs(ns).Patch(name, MergePatchType, patch) on the live object
ApplyCronJobPatch(live, patch) ==
    [live EXCEPT
        !.suspend = FieldMerge(@, patch.suspend),
        !.annotations = MapMerge(@, patch.annotations)]

\* ------------------------------------------------------------------ flattener: sub-mutations

setSafeEvict(d) ==
    LET previousValue == MapGet(d.templateAnnotations, ClusterAutoScalerSafeEvict)
        d1 == [d EXCEPT !.templateAnnotations = MapSet(@, ClusterAutoScalerSafeEvict, StrTrue)]
    IN  IF previousValue = StrEmpty
        THEN [obj |-> d1, upd |-> TRUE]
        ELSE [obj |-> [d1 EXCEPT !.annotations =
                            MapSet(@, KubecostTurnDownSafeEvictFlag, previousValue)],
              upd |-> TRUE]

\* zeroOutReplicas with a fault seeded: a replica count of zero is not skipped
zeroOutReplicasNoGuard(d) ==
    [obj |-> [d EXCEPT !.replicas = 0,
                       !.annotations = MapSet(@, KubecostTurnDownReplicas, Itoa(d.replicas))],
     upd |-> TRUE]

\* zeroOutReplicas with a fault seeded: the replica count is not captured
zeroOutReplicasNoCapture(d) ==
    IF d.replicas = 0
    THEN [obj |-> d, upd |-> FALSE]
    ELSE [obj |-> [d EXCEPT !.replicas = 0], upd |-> TRUE]

zeroOutReplicas(d) ==
    IF d.replicas = 0
    THEN [obj |-> d, upd |-> FALSE]
    ELSE [obj |-> [d EXCEPT !.replicas = 0,
                            !.annotations = MapSet(@, KubecostTurnDownReplicas, Itoa(d.replicas))],
          upd |-> TRUE]

\* maxUnavailable is a pointer to the very IntOrString that the else branch
\* overwrites, so maxUnavailable.String() reads the value after the overwrite
zeroOutRollingUpdate(d) ==
    IF ~d.rolling
    THEN [obj |-> d, upd |-> FALSE]
    ELSE LET wasNil   == d.maxUnavailable = << >>
             newValue == IF wasNil THEN FromInt(1)
                         ELSE [d.maxUnavailable[1] EXCEPT !.type = "Int", !.intVal = 1]
             toWrite  == IF wasNil THEN StrEmpty ELSE IntOrStringString(newValue)
         IN  [obj |-> [d EXCEPT !.maxUnavailable = <<newValue>>,
                                !.annotations = MapSet(@, KubecostTurnDownRollout, toWrite)],
              upd |-> TRUE]

resetSafeEvict(d) ==
    IF DOMAIN d.annotations = {}
    THEN [obj |-> d, upd |-> FALSE]
    ELSE IF ~Has(d.annotations, KubecostTurnDownSafeEvictFlag)
    THEN [obj |-> [d EXCEPT !.templateAnnotations = MapDelete(@, ClusterAutoScalerSafeEvict)],
          upd |-> TRUE]
    ELSE [obj |-> [d EXCEPT !.annotations = MapDelete(@, KubecostTurnDownSafeEvictFlag),
                            !.templateAnnotations =
                                MapSet(@, ClusterAutoScalerSafeEvict,
                                       d.annotations[KubecostTurnDownSafeEvictFlag])],
          upd |-> TRUE]

resetReplicas(d) ==
    IF ~Has(d.annotations, KubecostTurnDownReplicas)
    THEN [obj |-> d, upd |-> FALSE]
    ELSE LET replicas == ParseInt(d.annotations[KubecostTurnDownReplicas])
         IN  IF ~replicas.ok
             THEN [obj |-> d, upd |-> FALSE]
             ELSE [obj |-> [d EXCEPT !.annotations = MapDelete(@, KubecostTurnDownReplicas),
                                     !.replicas = replicas.val],
                   upd |-> TRUE]

resetRollingUpdate(d) ==
    IF ~Has(d.annotations, KubecostTurnDownRollout)
    THEN [obj |-> d, upd |-> FALSE]
    ELSE [obj |-> [d EXCEPT !.annotations = MapDelete(@, KubecostTurnDownRollout),
                            !.rolling = TRUE,
                            !.maxUnavailable =
                                <<IntstrParse(d.annotations[KubecostTurnDownRollout])>>],
          upd |-> TRUE]

\* ------------------------------------------------------------------ flattener: one workload
\* Each routine yields the Patch call it makes on the API server: call is
\* FALSE when it returns before patching, and patch is what it sends.

NoPatch == [call |-> FALSE, patch |-> << >>]

FlattenDeployment(deployment) ==
    LET e  == IF deployment.namespace = "kube-system"
              THEN setSafeEvict(deployment) ELSE [obj |-> deployment, upd |-> FALSE]
        r  == zeroOutReplicas(e.obj)
        u  == zeroOutRollingUpdate(r.obj)
    IN  IF ~e.upd /\ ~r.upd /\ ~u.upd
        THEN NoPatch
        ELSE [call |-> TRUE, patch |-> DeploymentPatch(deployment, u.obj)]

ExpandDeployment(deployment) ==
    LET e  == IF deployment.namespace = "kube-system"
              THEN resetSafeEvict(deployment) ELSE [obj |-> deployment, upd |-> FALSE]
        r  == resetReplicas(e.obj)
        u  == resetRollingUpdate(r.obj)
    IN  IF ~e.upd /\ ~r.upd /\ ~u.upd
        THEN NoPatch
        ELSE [call |-> TRUE, patch |-> DeploymentPatch(deployment, u.obj)]

FlattenDaemonSet(daemonset) ==
    IF MapGet(daemonset.templateAnnotations, ClusterAutoScalerSafeEvict) = StrTrue
    THEN NoPatch
    ELSE [call |-> TRUE,
          patch |-> DaemonSetPatch(daemonset,
                        [daemonset EXCEPT !.templateAnnotations =
                            MapSet(@, ClusterAutoScalerSafeEvict, StrTrue)])]

ExpandDaemonSet(daemonset) ==
    IF DOMAIN daemonset.templateAnnotations = {}
    THEN NoPatch
    ELSE [call |-> TRUE,
          patch |-> DaemonSetPatch(daemonset,
                        [daemonset EXCEPT !.templateAnnotations =
                            MapDelete(@, ClusterAutoScalerSafeEvict)])]

\* SuspendJob with a fault seeded: an unset suspend flag is captured as false
SuspendJobAlwaysCaptures(job) ==
    LET previousValue == IF job.suspend = << >> THEN <<FALSE>> ELSE job.suspend
        new == [job EXCEPT !.suspend = <<TRUE>>,
                           !.annotations = MapSet(@, KubecostTurnDownJobSuspend,
                                                  FormatBool(previousValue[1]))]
    IN  [call |-> TRUE, patch |-> CronJobPatch(job, new)]

SuspendJob(job) ==
    LET previousValue == job.suspend
        suspended == [job EXCEPT !.suspend = <<TRUE>>]
        new == IF previousValue /= << >>
               THEN [suspended EXCEPT !.annotations =
                        MapSet(@, KubecostTurnDownJobSuspend, FormatBool(previousValue[1]))]
               ELSE suspended
    IN  [call |-> TRUE, patch |-> CronJobPatch(job, new)]

\* ResumeJob with a fault seeded: the captured value is dropped, not restored
ResumeJobIgnoresCapture(job) ==
    [call |-> TRUE,
     patch |-> CronJobPatch(job, [job EXCEPT !.annotations = MapDelete(@, KubecostTurnDownJobSuspend),
                                             !.suspend = <<FALSE>>]),
     err |-> FALSE]

\* strconv.ParseBool failing makes ResumeJob return before it patches
ResumeJob(job) ==
    IF Has(job.annotations, KubecostTurnDownJobSuspend)
    THEN LET suspend == ParseBool(job.annotations[KubecostTurnDownJobSuspend])
         IN  IF ~suspend.ok
             THEN [call |-> FALSE, patch |-> << >>, err |-> TRUE]
             ELSE [call |-> TRUE,
                   patch |-> CronJobPatch(job,
                                [job EXCEPT !.annotations = MapDelete(@, KubecostTurnDownJobSuspend),
                                            !.suspend = <<suspend.val>>]),
                   err |-> FALSE]
    ELSE [call |-> TRUE, patch |-> CronJobPatch(job, [job EXCEPT !.suspend = <<FALSE>>]),
          err |-> FALSE]

\* ------------------------------------------------------------------ history

\* What the log keeps of the state an operation started from
Snapshot ==
    [deployments |-> deployments, daemonSets |-> daemonSets, cronJobs |-> cronJobs,
     pools |-> pools, nodePools |-> nodePools, autoScaling |-> autoScaling,
     turndown |-> turndown]

\* One operation: its name, the workload it was called on (<< >> for a
\* cluster-wide one), whether it returned an error, the external calls it
\* made, in order: <<"patch", kind, name>>, <<"drain", node, failed>>,
\* <<"resize", pools>>, <<"reset", pools>>, and <<"record">> for the write
\* of the manager's fields; the external calls that were set to fail; and the
\* state it started from
Entry(op, target, err, calls, faults) ==
    [op |-> op, target |-> target, err |-> err, calls |-> calls, faults |-> faults,
     pre |-> Snapshot]

Logged(e) == IF Len(log) < 2 THEN Append(log, e) ELSE <<log[2], e>>

Last == log[Len(log)]

Prev == log[Len(log) - 1]

\* ------------------------------------------------------------------ one workload: operations

PatchCall(kind, name, res) == IF res.call THEN <<<<"patch", kind, name>>>> ELSE << >>

DoFlattenDeployment(name, fail) ==
    LET res == FlattenDeployment(deployments[name])
    IN  /\ deployments' = IF res.call /\ ~fail
                          THEN [deployments EXCEPT ![name] = ApplyDeploymentPatch(@, res.patch)]
                          ELSE deployments
        /\ log' = Logged(Entry("FlattenDeployment", <<name>>, res.call /\ fail,
                               PatchCall("deployment", name, res),
                               IF fail THEN {<<"patch", "deployment", name>>} ELSE {}))
        /\ UNCHANGED <<daemonSets, cronJobs, pools, nodes, nodePools, autoScaling, turndown, inflight>>

DoExpandDeployment(name, fail) ==
    LET res == ExpandDeployment(deployments[name])
    IN  /\ deployments' = IF res.call /\ ~fail
                          THEN [deployments EXCEPT ![name] = ApplyDeploymentPatch(@, res.patch)]
                          ELSE deployments
        /\ log' = Logged(Entry("ExpandDeployment", <<name>>, res.call /\ fail,
                               PatchCall("deployment", name, res),
                               IF fail THEN {<<"patch", "deployment", name>>} ELSE {}))
        /\ UNCHANGED <<daemonSets, cronJobs, pools, nodes, nodePools, autoScaling, turndown, inflight>>

DoFlattenDaemonSet(name, fail) ==
    LET res == FlattenDaemonSet(daemonSets[name])
    IN  /\ daemonSets' = IF res.call /\ ~fail
                         THEN [daemonSets EXCEPT ![name] = ApplyDaemonSetPatch(@, res.patch)]
                         ELSE daemonSets
        /\ log' = Logged(Entry("FlattenDaemonSet", <<name>>, res.call /\ fail,
                               PatchCall("daemonset", name, res),
                               IF fail THEN {<<"patch", "daemonset", name>>} ELSE {}))
        /\ UNCHANGED <<deployments, cronJobs, pools, nodes, nodePools, autoScaling, turndown, inflight>>

DoExpandDaemonSet(name, fail) ==
    LET res == ExpandDaemonSet(daemonSets[name])
    IN  /\ daemonSets' = IF res.call /\ ~fail
                         THEN [daemonSets EXCEPT ![name] = ApplyDaemonSetPatch(@, res.patch)]
                         ELSE daemonSets
        /\ log' = Logged(Entry("ExpandDaemonSet", <<name>>, res.call /\ fail,
                               PatchCall("daemonset", name, res),
                               IF fail THEN {<<"patch", "daemonset", name>>} ELSE {}))
        /\ UNCHANGED <<deployments, cronJobs, pools, nodes, nodePools, autoScaling, turndown, inflight>>

DoSuspendJob(name, fail) ==
    LET res == SuspendJob(cronJobs[name])
    IN  /\ cronJobs' = IF res.call /\ ~fail
                       THEN [cronJobs EXCEPT ![name] = ApplyCronJobPatch(@, res.patch)]
                       ELSE cronJobs
        /\ log' = Logged(Entry("SuspendJob", <<name>>, res.call /\ fail,
                               PatchCall("cronjob", name, res),
                               IF fail THEN {<<"patch", "cronjob", name>>} ELSE {}))
        /\ UNCHANGED <<deployments, daemonSets, pools, nodes, nodePools, autoScaling, turndown, inflight>>

DoResumeJob(name, fail) ==
    LET res == ResumeJob(cronJobs[name])
    IN  /\ cronJobs' = IF res.call /\ ~fail
                       THEN [cronJobs EXCEPT ![name] = ApplyCronJobPatch(@, res.patch)]
                       ELSE cronJobs
        /\ log' = Logged(Entry("ResumeJob", <<name>>, res.err \/ (res.call /\ fail),
                               PatchCall("cronjob", name, res),
                               IF fail THEN {<<"patch", "cronjob", name>>} ELSE {}))
        /\ UNCHANGED <<deployments, daemonSets, pools, nodes, nodePools, autoScaling, turndown, inflight>>

\* ------------------------------------------------------------------ one workload: inputs

NoWorkloads == [x \in {} |-> << >>]

StrPercent == <<"2", "5", "%">>

\* the annotations of a workload's owner
OwnerAnnotations == {EmptyMap, MapSet(EmptyMap, OtherKey, <<"x">>)}

\* pod-template annotations: the safe-to-evict marker absent, "true" or
\* "false", with or without an unrelated annotation
TemplateAnnotationInputs ==
    {a \in UNION {[ks -> {StrTrue, StrFalse, <<"x">>}] :
                    ks \in SUBSET {ClusterAutoScalerSafeEvict, OtherKey}} :
        /\ Has(a, OtherKey) => a[OtherKey] = <<"x">>
        /\ Has(a, ClusterAutoScalerSafeEvict) => a[ClusterAutoScalerSafeEvict] /= <<"x">>}

\* no rolling update, rolling update without max-unavailable, with an
\* absolute number, with a percentage
StrategyInputs ==
    {[rolling |-> FALSE, maxUnavailable |-> << >>], [rolling |-> TRUE, maxUnavailable |-> << >>],
     [rolling |-> TRUE, maxUnavailable |-> <<FromString(StrPercent)>>]}
    \cup {[rolling |-> TRUE, maxUnavailable |-> <<FromInt(n)>>] : n \in 1..MaxReplicas}

DeploymentInputs(name) ==
    {[name |-> name, namespace |-> ns, replicas |-> r, rolling |-> st.rolling,
      maxUnavailable |-> st.maxUnavailable, annotations |-> a, templateAnnotations |-> t] :
        ns \in {"kube-system", "default"}, r \in 0..MaxReplicas, st \in StrategyInputs,
        a \in OwnerAnnotations, t \in TemplateAnnotationInputs}

DaemonSetInputs(name) ==
    {[name |-> name, namespace |-> ns, templateAnnotations |-> t] :
        ns \in {"kube-system", "default"}, t \in TemplateAnnotationInputs}

CronJobInputs(name) ==
    {[name |-> name, namespace |-> "default", suspend |-> s, annotations |-> a] :
        s \in {<< >>, <<TRUE>>, <<FALSE>>}, a \in OwnerAnnotations}

\* no kubecost-turndown deployment is looked at
NoTurndown == [tolerations |-> << >>, nodeSelector |-> EmptyMap]

NoCluster ==
    /\ turndown = NoTurndown
    /\ inflight = << >>
    /\ pools = NoWorkloads
    /\ nodes = NoWorkloads
    /\ nodePools = << >>
    /\ autoScaling = << >>
    /\ log = << >>

InitFlat ==
    /\ NoCluster
    /\ \/ /\ deployments \in {[n \in {"web"} |-> d] : d \in DeploymentInputs("web")}
          /\ daemonSets = NoWorkloads
          /\ cronJobs = NoWorkloads
       \/ /\ deployments = NoWorkloads
          /\ daemonSets \in {[n \in {"agent"} |-> d] : d \in DaemonSetInputs("agent")}
          /\ cronJobs = NoWorkloads
       \/ /\ deployments = NoWorkloads
          /\ daemonSets = NoWorkloads
          /\ cronJobs \in {[n \in {"backup"} |-> j] : j \in CronJobInputs("backup")}

NextFlat ==
    \/ \E name \in DOMAIN deployments, fail \in BOOLEAN : DoFlattenDeployment(name, fail)
    \/ \E name \in DOMAIN deployments, fail \in BOOLEAN : DoExpandDeployment(name, fail)
    \/ \E name \in DOMAIN daemonSets, fail \in BOOLEAN : DoFlattenDaemonSet(name, fail)
    \/ \E name \in DOMAIN daemonSets, fail \in BOOLEAN : DoExpandDaemonSet(name, fail)
    \/ \E name \in DOMAIN cronJobs, fail \in BOOLEAN : DoSuspendJob(name, fail)
    \/ \E name \in DOMAIN cronJobs, fail \in BOOLEAN : DoResumeJob(name, fail)

SpecFlat == InitFlat /\ [][NextFlat]_vars

\* ------------------------------------------------------------------ claims on one workload

FlattenOps == {"FlattenDeployment", "FlattenDaemonSet", "SuspendJob"}

ExpandOps == {"ExpandDeployment", "ExpandDaemonSet", "ResumeJob"}

ExpandOf(op) ==
    CASE op = "FlattenDeployment" -> "ExpandDeployment"
      [] op = "FlattenDaemonSet" -> "ExpandDaemonSet"
      [] op = "SuspendJob" -> "ResumeJob"
      [] OTHER -> "none"

\* the workloads of a snapshot
WorkloadsOf(s) == <<s.deployments, s.daemonSets, s.cronJobs>>

\* some workload of the snapshot carries a capture annotation
HasCapture(s) ==
    \/ \E n \in DOMAIN s.deployments : (DOMAIN s.deployments[n].annotations) \cap CaptureKeys /= {}
    \/ \E n \in DOMAIN s.cronJobs : (DOMAIN s.cronJobs[n].annotations) \cap CaptureKeys /= {}

SafeEvictOf(t) == IF Has(t, ClusterAutoScalerSafeEvict) THEN <<t[ClusterAutoScalerSafeEvict]>> ELSE << >>

\* The flattenable fields of the workloads of a snapshot: replica count,
\* rolling-update max-unavailable, pod-template safe-to-evict annotation,
\* and whether the job is suspended (an unset suspend flag counts as false)
FlattenableFields(s) ==
    [deployments |-> [n \in DOMAIN s.deployments |->
                        [replicas |-> s.deployments[n].replicas,
                         rolling |-> s.deployments[n].rolling,
                         maxUnavailable |-> s.deployments[n].maxUnavailable,
                         safeEvict |-> SafeEvictOf(s.deployments[n].templateAnnotations)]],
     daemonSets |-> [n \in DOMAIN s.daemonSets |->
                        SafeEvictOf(s.daemonSets[n].templateAnnotations)],
     cronJobs |-> [n \in DOMAIN s.cronJobs |-> s.cronJobs[n].suspend = <<TRUE>>]]

\* the last two operations were a flatten and then the matching expand of
\* the same workload, and both patches were applied
FlattenThenExpand ==
    /\ Len(log) >= 2
    /\ Prev.op \in FlattenOps
    /\ Last.op = ExpandOf(Prev.op)
    /\ Prev.target = Last.target
    /\ ~Prev.err /\ ~Last.err

\* C1: round-trip law: a workload without capture annotation that is
\* flattened and then expanded has every flattenable field (replicas,
\* max-unavailable, safe-to-evict, suspend) back at its value before the flatten
C1_RoundTrip ==
    (FlattenThenExpand /\ ~HasCapture(Prev.pre))
        => FlattenableFields(Snapshot) = FlattenableFields(Prev.pre)

\* the last two operations were the same flatten of the same workload, and
\* both patches were applied
FlattenTwice ==
    /\ Len(log) >= 2
    /\ Prev.op \in FlattenOps
    /\ Last.op = Prev.op
    /\ Prev.target = Last.target
    /\ ~Prev.err /\ ~Last.err

\* C2: flatten idempotence: flattening a workload a second time leaves the
\* object (fields and capture annotations) as the first flatten left it
C2_FlattenIdempotent ==
    FlattenTwice => WorkloadsOf(Snapshot) = WorkloadsOf(Last.pre)

\* the only operation so far is an expand of a workload that was never
\* flattened and carries no capture annotation
ExpandOfExpanded ==
    /\ Len(log) = 1
    /\ Last.op \in ExpandOps
    /\ ~HasCapture(Last.pre)

\* C3: expand idempotence: expanding a workload that is already expanded
\* issues no patch and changes no field of it
C3_ExpandIdempotent ==
    ExpandOfExpanded => (Last.calls = << >> /\ WorkloadsOf(Snapshot) = WorkloadsOf(Last.pre))

\* the workload the latest operation was called on, as it was at the start
\* of the latest operation, at the start of the one before, and as it is now
JobBeforeLast == Last.pre.cronJobs[Last.target[1]]

JobBeforePrev == Prev.pre.cronJobs[Last.target[1]]

JobNow == cronJobs[Last.target[1]]

\* the latest operation was a SuspendJob whose patch was applied
Suspended == Len(log) >= 1 /\ Last.op = "SuspendJob" /\ ~Last.err

\* the last two operations were a SuspendJob and a ResumeJob of the same
\* job, and both patches were applied
SuspendedThenResumed == FlattenThenExpand /\ Prev.op = "SuspendJob"

\* C11: default reconstruction: a cron job whose suspend field is nil has,
\* after SuspendJob, suspend = true and no suspend-capture annotation, and a
\* following ResumeJob yields suspend = false, not nil
C11_DefaultReconstruction ==
    /\ (Suspended /\ JobBeforeLast.suspend = << >>)
            => /\ JobNow.suspend = <<TRUE>>
               /\ ~Has(JobNow.annotations, KubecostTurnDownJobSuspend)
    /\ (SuspendedThenResumed /\ JobBeforePrev.suspend = << >>)
            => JobNow.suspend = <<FALSE>>

\* a job with a nil suspend field was suspended and then resumed
C11_Witness ==
    /\ SuspendedThenResumed /\ JobBeforePrev.suspend = << >>
    /\ JobBeforeLast.suspend = <<TRUE>>
    /\ JobNow.suspend = <<FALSE>>

\* C12: a cron job whose suspend field is set explicitly has, after
\* SuspendJob, that boolean in the suspend-capture annotation ("false" for
\* false) and suspend = true; a following ResumeJob restores suspend to the
\* captured boolean and removes the capture annotation
C12_ExplicitSuspendCaptured ==
    /\ (Suspended /\ JobBeforeLast.suspend /= << >>)
            => /\ JobNow.suspend = <<TRUE>>
               /\ Has(JobNow.annotations, KubecostTurnDownJobSuspend)
               /\ JobNow.annotations[KubecostTurnDownJobSuspend] =
                        (IF JobBeforeLast.suspend[1] THEN StrTrue ELSE StrFalse)
    /\ (SuspendedThenResumed /\ JobBeforePrev.suspend /= << >>)
            => /\ JobNow.suspend = JobBeforePrev.suspend
               /\ ~Has(JobNow.annotations, KubecostTurnDownJobSuspend)

\* a job with suspend explicitly false was suspended, which captured
\* "false", and then resumed
C12_Witness ==
    /\ SuspendedThenResumed /\ JobBeforePrev.suspend = <<FALSE>>
    /\ JobBeforeLast.annotations[KubecostTurnDownJobSuspend] = StrFalse
    /\ JobNow.suspend = <<FALSE>>

DeploymentBeforeLast == Last.pre.deployments[Last.target[1]]

DeploymentBeforePrev == Prev.pre.deployments[Last.target[1]]

DeploymentNow == deployments[Last.target[1]]

\* a deployment with a positive replica count, no rolling-update strategy
\* and a namespace other than kube-system
PlainDeployment(d) == d.replicas > 0 /\ ~d.rolling /\ d.namespace /= "kube-system"

\* the latest operation was a FlattenDeployment that returned no error
Flattened == Len(log) >= 1 /\ Last.op = "FlattenDeployment" /\ ~Last.err

\* the last two operations were a FlattenDeployment and an ExpandDeployment
\* of the same deployment, and both patches were applied
FlattenedThenExpanded == FlattenThenExpand /\ Prev.op = "FlattenDeployment"

RolloutText(mu) == IF mu = << >> THEN StrEmpty ELSE IntOrStringString(mu[1])

\* C19: FlattenDeployment on a deployment with a rolling-update strategy
\* leaves the rollout capture annotation holding the max-unavailable value
\* the deployment had before (the absolute int, the percentage string, or
\* the empty string if unset) and max-unavailable at the integer 1; a
\* following ExpandDeployment sets max-unavailable back to the value before
\* the flatten and deletes the annotation
C19_RolloutCaptured ==
    /\ (Flattened /\ DeploymentBeforeLast.rolling)
            => /\ Has(DeploymentNow.annotations, KubecostTurnDownRollout)
               /\ DeploymentNow.annotations[KubecostTurnDownRollout]
                        = RolloutText(DeploymentBeforeLast.maxUnavailable)
               /\ DeploymentNow.maxUnavailable = <<FromInt(1)>>
    /\ (FlattenedThenExpanded /\ DeploymentBeforePrev.rolling)
            => /\ DeploymentNow.maxUnavailable = DeploymentBeforePrev.maxUnavailable
               /\ ~Has(DeploymentNow.annotations, KubecostTurnDownRollout)

\* C20: for a kube-system deployment without capture annotation, after
\* FlattenDeployment and then ExpandDeployment the pod-template
\* safe-to-evict annotation is absent if it was absent before the flatten
\* and otherwise has its prior value, and the safe-evict capture annotation
\* is absent, also when the deployment carries no other annotation
C20_SafeEvictRoundTrip ==
    (/\ FlattenedThenExpanded
     /\ DeploymentBeforePrev.namespace = "kube-system"
     /\ ~HasCapture(Prev.pre))
        => /\ SafeEvictOf(DeploymentNow.templateAnnotations)
                    = SafeEvictOf(DeploymentBeforePrev.templateAnnotations)
           /\ ~Has(DeploymentNow.annotations, KubecostTurnDownSafeEvictFlag)

\* ------------------------------------------------------------------ flattener: all workloads
\* The aggregate operations thread a record r through their steps:
\* r.ws the workloads on the API server, r.calls the external calls made so
\* far, r.err whether an error is being returned.  faults is the set of
\* external calls that fail when they are made: <<"list", what>> and
\* <<"patch", kind, name>>.

\* the order in which the API server lists objects
DeploymentNames == <<"kube-dns", "web">>
DaemonSetNames == <<"agent">>
CronJobNames == <<"backup">>

Listed(order, objects) == SelectSeq(order, LAMBDA n : n \in DOMAIN objects)

RECURSIVE Concat(_)
Concat(ss) == IF ss = << >> THEN << >> ELSE Head(ss) \o Concat(Tail(ss))

\* the Patch calls of one loop over the listed items, in order; results
\* holds what the routine returned for each item
LoopCalls(kind, items, results) ==
    Concat([i \in 1..Len(items) |-> PatchCall(kind, items[i], results[items[i]])])

\* Each loop lists the workloads of its kind and runs the routine on each
\* listed item in order; a Patch call that does not fail is applied to the
\* object, and a failing item is logged and the loop goes on
\* FlattenDeployments with a fault seeded: the first item whose patch fails
\* ends the loop and its error is returned
FlattenDeploymentsAborting(r, faults) ==
    LET items  == Listed(DeploymentNames, r.ws.deployments)
        failed == {i \in 1..Len(items) :
                        /\ FlattenDeployment(r.ws.deployments[items[i]]).call
                        /\ <<"patch", "deployment", items[i]>> \in faults}
        last   == IF failed = {} THEN Len(items)
                  ELSE CHOOSE i \in failed : \A j \in failed : i <= j
        done   == SubSeq(items, 1, last)
    IN  IF <<"list", "deployments">> \in faults THEN [r EXCEPT !.err = TRUE]
        ELSE [r EXCEPT
                !.err = failed /= {},
                !.ws.deployments =
                    [n \in DOMAIN @ |->
                        IF /\ (\E i \in 1..Len(done) : done[i] = n)
                           /\ FlattenDeployment(@[n]).call
                           /\ <<"patch", "deployment", n>> \notin faults
                        THEN ApplyDeploymentPatch(@[n], FlattenDeployment(@[n]).patch)
                        ELSE @[n]],
                !.calls = @ \o LoopCalls("deployment", done,
                                [n \in DOMAIN r.ws.deployments |->
                                    FlattenDeployment(r.ws.deployments[n])])]

FlattenDeployments(r, faults) ==
    IF <<"list", "deployments">> \in faults THEN [r EXCEPT !.err = TRUE]
    ELSE [r EXCEPT
            !.ws.deployments =
                [n \in DOMAIN @ |->
                    IF FlattenDeployment(@[n]).call /\ <<"patch", "deployment", n>> \notin faults
                    THEN ApplyDeploymentPatch(@[n], FlattenDeployment(@[n]).patch) ELSE @[n]],
            !.calls = @ \o LoopCalls("deployment", Listed(DeploymentNames, r.ws.deployments),
                                     [n \in DOMAIN r.ws.deployments |-> FlattenDeployment(r.ws.deployments[n])])]

FlattenDaemonSets(r, faults) ==
    IF <<"list", "daemonSets">> \in faults THEN [r EXCEPT !.err = TRUE]
    ELSE [r EXCEPT
            !.ws.daemonSets =
                [n \in DOMAIN @ |->
                    IF FlattenDaemonSet(@[n]).call /\ <<"patch", "daemonset", n>> \notin faults
                    THEN ApplyDaemonSetPatch(@[n], FlattenDaemonSet(@[n]).patch) ELSE @[n]],
            !.calls = @ \o LoopCalls("daemonset", Listed(DaemonSetNames, r.ws.daemonSets),
                                     [n \in DOMAIN r.ws.daemonSets |-> FlattenDaemonSet(r.ws.daemonSets[n])])]

SuspendJobs(r, faults) ==
    IF <<"list", "cronJobs">> \in faults THEN [r EXCEPT !.err = TRUE]
    ELSE [r EXCEPT
            !.ws.cronJobs =
                [n \in DOMAIN @ |->
                    IF SuspendJob(@[n]).call /\ <<"patch", "cronjob", n>> \notin faults
                    THEN ApplyCronJobPatch(@[n], SuspendJob(@[n]).patch) ELSE @[n]],
            !.calls = @ \o LoopCalls("cronjob", Listed(CronJobNames, r.ws.cronJobs),
                                     [n \in DOMAIN r.ws.cronJobs |-> SuspendJob(r.ws.cronJobs[n])])]

\* Flatten after FlattenDaemonSets returned b
FlattenAfterDaemonSets(b, faults) == IF b.err THEN b ELSE SuspendJobs(b, faults)

\* Flatten after FlattenDeployments returned a
FlattenAfterDeployments(a, faults) ==
    IF a.err THEN a ELSE FlattenAfterDaemonSets(FlattenDaemonSets(a, faults), faults)

Flatten(r, faults) == FlattenAfterDeployments(FlattenDeployments(r, faults), faults)

ExpandDeployments(r, faults) ==
    IF <<"list", "deployments">> \in faults THEN [r EXCEPT !.err = TRUE]
    ELSE [r EXCEPT
            !.ws.deployments =
                [n \in DOMAIN @ |->
                    IF ExpandDeployment(@[n]).call /\ <<"patch", "deployment", n>> \notin faults
                    THEN ApplyDeploymentPatch(@[n], ExpandDeployment(@[n]).patch) ELSE @[n]],
            !.calls = @ \o LoopCalls("deployment", Listed(DeploymentNames, r.ws.deployments),
                                     [n \in DOMAIN r.ws.deployments |-> ExpandDeployment(r.ws.deployments[n])])]

ExpandDaemonSets(r, faults) ==
    IF <<"list", "daemonSets">> \in faults THEN [r EXCEPT !.err = TRUE]
    ELSE [r EXCEPT
            !.ws.daemonSets =
                [n \in DOMAIN @ |->
                    IF ExpandDaemonSet(@[n]).call /\ <<"patch", "daemonset", n>> \notin faults
                    THEN ApplyDaemonSetPatch(@[n], ExpandDaemonSet(@[n]).patch) ELSE @[n]],
            !.calls = @ \o LoopCalls("daemonset", Listed(DaemonSetNames, r.ws.daemonSets),
                                     [n \in DOMAIN r.ws.daemonSets |-> ExpandDaemonSet(r.ws.daemonSets[n])])]

ResumeJobs(r, faults) ==
    IF <<"list", "cronJobs">> \in faults THEN [r EXCEPT !.err = TRUE]
    ELSE [r EXCEPT
            !.ws.cronJobs =
                [n \in DOMAIN @ |->
                    IF ResumeJob(@[n]).call /\ <<"patch", "cronjob", n>> \notin faults
                    THEN ApplyCronJobPatch(@[n], ResumeJob(@[n]).patch) ELSE @[n]],
            !.calls = @ \o LoopCalls("cronjob", Listed(CronJobNames, r.ws.cronJobs),
                                     [n \in DOMAIN r.ws.cronJobs |-> ResumeJob(r.ws.cronJobs[n])])]

\* Expand is called by ScaleUpCluster; it mirrors Flatten over the three
\* Expand loops
ExpandAfterDaemonSets(b, faults) == IF b.err THEN b ELSE ResumeJobs(b, faults)

ExpandAfterDeployments(a, faults) ==
    IF a.err THEN a ELSE ExpandAfterDaemonSets(ExpandDaemonSets(a, faults), faults)

Expand(r, faults) == ExpandAfterDeployments(ExpandDeployments(r, faults), faults)

\* ------------------------------------------------------------------ collaborators

\* ktdm.currentNode: the node that hosts the turndown pod (the anchor node)
currentNode == "n0"

\* Provider.GetNodePools: the pools in the Provider's order
PoolNames == <<"p1", "p2", "p3">>

\* Nodes().List: the nodes in the API server's order
NodeNames == <<"n0", "n1", "n2", "n3", "n4">>

GetNodePools == SelectSeq(PoolNames, LAMBDA p : p \in DOMAIN pools)

\* Provider.GetPoolID(node)
GetPoolID(n) == nodes[n]

Range(seq) == {seq[i] : i \in 1..Len(seq)}

\* Provider.SetNodePoolSizes(targets, size): each target pool gets the size,
\* and the Provider keeps the size the pool had before the turndown
SetNodePoolSizes(ps, targets, size) ==
    [p \in DOMAIN ps |->
        IF p \in Range(targets)
        THEN [ps[p] EXCEPT !.size = size,
                           !.saved = IF @ = << >> THEN <<ps[p].size>> ELSE @]
        ELSE ps[p]]

\* Provider.ResetNodePoolSizes(targets): each target pool gets back the size
\* the Provider kept for it
ResetNodePoolSizes(ps, targets) ==
    [p \in DOMAIN ps |->
        IF p \in Range(targets) /\ ps[p].saved /= << >>
        THEN [ps[p] EXCEPT !.size = ps[p].saved[1], !.saved = << >>]
        ELSE ps[p]]

\* ------------------------------------------------------------------ turndown manager

KubecostFlattenerOmit == {"kubecost-turndown", "kube-dns", "kube-dns-autoscaler"}

IsScaledDown == Len(nodePools) = 0

\* step 2 of ScaleDownCluster: the cluster autoscales if any pool does
IsAutoScalingCluster == \E p \in Range(GetNodePools) : pools[p].autoScaling

\* DrainLoop with a fault seeded: a failed drain ends the loop
RECURSIVE DrainLoopAborting(_, _)
DrainLoopAborting(k, faults) ==
    IF k = 0 THEN [currentNodePoolID |-> "", drained |-> << >>]
    ELSE LET before == DrainLoopAborting(k - 1, faults)
             n      == Listed(NodeNames, nodes)[k]
             poolID == GetPoolID(n)
         IN  IF \E i \in 1..Len(before.drained) : before.drained[i][3] THEN before
             ELSE IF n = currentNode THEN [before EXCEPT !.currentNodePoolID = poolID]
             ELSE IF poolID \notin Range(GetNodePools) THEN before
             ELSE IF pools[poolID].autoScaling THEN before
             ELSE [before EXCEPT !.drained = Append(@, <<"drain", n, <<"drain", n>> \in faults>>)]

\* step 3 of ScaleDownCluster, over the first k listed nodes: the pool id of
\* the current node ("" until it is met) and the Drain calls made, in
\* order, each with whether it failed; a failed drain is logged and the loop
\* goes on
RECURSIVE DrainLoop(_, _)
DrainLoop(k, faults) ==
    IF k = 0 THEN [currentNodePoolID |-> "", drained |-> << >>]
    ELSE LET before == DrainLoop(k - 1, faults)
             n      == Listed(NodeNames, nodes)[k]
             poolID == GetPoolID(n)
         IN  IF n = currentNode THEN [before EXCEPT !.currentNodePoolID = poolID]
             ELSE IF poolID \notin Range(GetNodePools) THEN before
             ELSE IF pools[poolID].autoScaling THEN before
             ELSE [before EXCEPT !.drained = Append(@, <<"drain", n, <<"drain", n>> \in faults>>)]

DrainAll(faults) == DrainLoop(Len(Listed(NodeNames, nodes)), faults)

\* TargetPools with a fault seeded: the pool of the current node is kept
TargetPoolsWithAnchor(currentNodePoolID) ==
    SelectSeq(GetNodePools, LAMBDA p : ~pools[p].autoScaling)

\* step 4 of ScaleDownCluster
TargetPools(currentNodePoolID) ==
    SelectSeq(GetNodePools, LAMBDA p : ~(p = currentNodePoolID \/ pools[p].autoScaling))

\* ResizeError with a fault seeded: the error of SetNodePoolSizes is dropped
ResizeErrorDropped(setFailed) == FALSE

\* step 5 of ScaleDownCluster: the error it returns after SetNodePoolSizes
ResizeError(setFailed) == setFailed

\* ScaleDownWorkloads with a fault seeded: Flatten runs whatever the pools are
ScaleDownWorkloadsFlattenAlways(r, faults) == Flatten(r, faults)

\* the choice between Flatten and SuspendJobs in ScaleDownCluster
ScaleDownWorkloads(r, faults) ==
    IF IsAutoScalingCluster THEN Flatten(r, faults) ELSE SuspendJobs(r, faults)

Workloads == [deployments |-> deployments, daemonSets |-> daemonSets, cronJobs |-> cronJobs]

\* ScaleDownOutcome with a fault seeded: the resize is requested before the
\* drains and before the record is written
ScaleDownOutcomeResizeFirst(f, loop, setFailed) ==
    IF f.err
    THEN [ws |-> f.ws, nodePools |-> nodePools, autoScaling |-> autoScaling,
          pools |-> pools, err |-> TRUE, calls |-> f.calls]
    ELSE [ws |-> f.ws,
          nodePools |-> TargetPools(loop.currentNodePoolID),
          autoScaling |-> <<IsAutoScalingCluster>>,
          pools |-> IF setFailed THEN pools
                    ELSE SetNodePoolSizes(pools, TargetPools(loop.currentNodePoolID), 0),
          err |-> ResizeError(setFailed),
          calls |-> f.calls \o <<<<"resize", TargetPools(loop.currentNodePoolID)>>>>
                        \o loop.drained \o <<<<"record">>>>]

\* ScaleDownOutcome with a fault seeded: the record is written only after a
\* resize that succeeded
ScaleDownOutcomeRecordLate(f, loop, setFailed) ==
    IF f.err
    THEN [ws |-> f.ws, nodePools |-> nodePools, autoScaling |-> autoScaling,
          pools |-> pools, err |-> TRUE, calls |-> f.calls]
    ELSE [ws |-> f.ws,
          nodePools |-> IF setFailed THEN nodePools
                        ELSE TargetPools(loop.currentNodePoolID),
          autoScaling |-> IF setFailed THEN autoScaling ELSE <<IsAutoScalingCluster>>,
          pools |-> IF setFailed THEN pools
                    ELSE SetNodePoolSizes(pools, TargetPools(loop.currentNodePoolID), 0),
          err |-> ResizeError(setFailed),
          calls |-> f.calls \o loop.drained
                        \o <<<<"record">>, <<"resize", TargetPools(loop.currentNodePoolID)>>>>]

\* The outcome of ScaleDownCluster past its workload step f and its drain
\* loop: the workloads, the manager's fields and the pools it leaves, the
\* error it returns and the external calls it made
ScaleDownOutcome(f, loop, setFailed) ==
    IF f.err
    THEN [ws |-> f.ws, nodePools |-> nodePools, autoScaling |-> autoScaling,
          pools |-> pools, err |-> TRUE, calls |-> f.calls]
    ELSE [ws |-> f.ws,
          nodePools |-> TargetPools(loop.currentNodePoolID),
          autoScaling |-> <<IsAutoScalingCluster>>,
          pools |-> IF setFailed THEN pools
                    ELSE SetNodePoolSizes(pools, TargetPools(loop.currentNodePoolID), 0),
          err |-> ResizeError(setFailed),
          calls |-> f.calls \o loop.drained
                        \o <<<<"record">>, <<"resize", TargetPools(loop.currentNodePoolID)>>>>]

\* ScaleDownCluster past the two listings
ScaleDownSteps(faults) ==
    ScaleDownOutcome(ScaleDownWorkloads([ws |-> Workloads, calls |-> << >>, err |-> FALSE],
                                        faults),
                     DrainAll(faults), <<"setSizes">> \in faults)

\* ScaleDownCluster with a fault seeded: the error of a listing is returned
\* only after the steps have run
ScaleDownClusterListingLate(faults) ==
    \E r \in {ScaleDownSteps(faults)} :
        /\ deployments' = r.ws.deployments
        /\ daemonSets' = r.ws.daemonSets
        /\ cronJobs' = r.ws.cronJobs
        /\ nodePools' = r.nodePools
        /\ autoScaling' = r.autoScaling
        /\ pools' = r.pools
        /\ log' = Append(log, Entry("ScaleDownCluster", << >>,
                                    r.err \/ <<"list", "nodes">> \in faults
                                          \/ <<"list", "pools">> \in faults,
                                    r.calls, faults))
        /\ UNCHANGED <<nodes, turndown, inflight>>

\* faults adds to the workload faults <<"list", "nodes">>, <<"list", "pools">>,
\* <<"drain", node>> and <<"setSizes">>
ScaleDownCluster(faults) ==
    IF <<"list", "nodes">> \in faults \/ <<"list", "pools">> \in faults
    THEN /\ log' = Append(log, Entry("ScaleDownCluster", << >>, TRUE, << >>, faults))
         /\ UNCHANGED <<deployments, daemonSets, cronJobs, pools, nodes, nodePools, autoScaling, turndown, inflight>>
    ELSE \E r \in {ScaleDownSteps(faults)} :
            /\ deployments' = r.ws.deployments
            /\ daemonSets' = r.ws.daemonSets
            /\ cronJobs' = r.ws.cronJobs
            /\ nodePools' = r.nodePools
            /\ autoScaling' = r.autoScaling
            /\ pools' = r.pools
            /\ log' = Append(log, Entry("ScaleDownCluster", << >>, r.err, r.calls, faults))
            /\ UNCHANGED <<nodes, turndown, inflight>>

\* loadNodePools past the listing: the fields it writes
LoadedNodePools == SelectSeq(GetNodePools, LAMBDA p : ~pools[p].autoScaling)

LoadedAutoScaling == IF IsAutoScalingCluster THEN <<TRUE>> ELSE autoScaling

\* the choice between Expand and ResumeJobs in ScaleUpCluster
ScaleUpWorkloads(as, r, faults) ==
    IF as = <<TRUE>> THEN Expand(r, faults) ELSE ResumeJobs(r, faults)

\* ScaleUpOutcome with a fault seeded: the record is cleared whether or not
\* the workload step failed
ScaleUpOutcomeAlwaysClears(np, as, f) ==
    [ws |-> f.ws, nodePools |-> << >>, autoScaling |-> << >>,
     pools |-> ResetNodePoolSizes(pools, np), err |-> f.err, calls |-> f.calls]

\* The outcome of ScaleUpCluster past ResetNodePoolSizes and its workload
\* step f
ScaleUpOutcome(np, as, f) ==
    [ws |-> f.ws, nodePools |-> IF f.err THEN np ELSE << >>,
     autoScaling |-> IF f.err THEN as ELSE << >>,
     pools |-> ResetNodePoolSizes(pools, np), err |-> f.err, calls |-> f.calls]

\* ScaleUpSteps with a fault seeded: an empty set of pools is not checked for
ScaleUpStepsUnchecked(np, as, faults) ==
    IF <<"reset">> \in faults
    THEN [ws |-> Workloads, nodePools |-> np, autoScaling |-> as, pools |-> pools,
          err |-> TRUE, calls |-> <<<<"reset", np>>>>]
    ELSE ScaleUpOutcome(np, as,
            ScaleUpWorkloads(as, [ws |-> Workloads, calls |-> <<<<"reset", np>>>>,
                                  err |-> FALSE], faults))

\* ScaleUpCluster once the pools are known: np and as are ktdm.nodePools and
\* ktdm.autoScaling, as recorded or as loaded
ScaleUpSteps(np, as, faults) ==
    IF Len(np) = 0
    THEN [ws |-> Workloads, nodePools |-> np, autoScaling |-> as, pools |-> pools,
          err |-> TRUE, calls |-> << >>]
    ELSE IF <<"reset">> \in faults
    THEN [ws |-> Workloads, nodePools |-> np, autoScaling |-> as, pools |-> pools,
          err |-> TRUE, calls |-> <<<<"reset", np>>>>]
    ELSE ScaleUpOutcome(np, as,
            ScaleUpWorkloads(as, [ws |-> Workloads, calls |-> <<<<"reset", np>>>>,
                                  err |-> FALSE], faults))

\* faults adds to the workload faults <<"list", "pools">> and <<"reset">>
ScaleUpCluster(faults) ==
    IF Len(nodePools) = 0 /\ <<"list", "pools">> \in faults
    THEN /\ log' = Append(log, Entry("ScaleUpCluster", << >>, TRUE, << >>, faults))
         /\ UNCHANGED <<deployments, daemonSets, cronJobs, pools, nodes, nodePools, autoScaling, turndown, inflight>>
    ELSE \E r \in {ScaleUpSteps(IF Len(nodePools) = 0 THEN LoadedNodePools ELSE nodePools,
                                IF Len(nodePools) = 0 THEN LoadedAutoScaling ELSE autoScaling,
                                faults)} :
            /\ deployments' = r.ws.deployments
            /\ daemonSets' = r.ws.daemonSets
            /\ cronJobs' = r.ws.cronJobs
            /\ nodePools' = r.nodePools
            /\ autoScaling' = r.autoScaling
            /\ pools' = r.pools
            /\ log' = Append(log, Entry("ScaleUpCluster", << >>, r.err, r.calls, faults))
            /\ UNCHANGED <<nodes, turndown, inflight>>

\* ------------------------------------------------------------------ the cluster

\* how many calls of the manager a behaviour makes
MaxCalls == 2

\* In one operation every external call succeeds, or exactly one fails
SingleFaults(calls) == {{}} \cup {{c} : c \in calls}

WorkloadCalls ==
    {<<"list", "deployments">>, <<"list", "daemonSets">>, <<"list", "cronJobs">>}
        \cup {<<"patch", "deployment", n>> : n \in DOMAIN deployments}
        \cup {<<"patch", "daemonset", n>> : n \in DOMAIN daemonSets}
        \cup {<<"patch", "cronjob", n>> : n \in DOMAIN cronJobs}

ScaleDownCalls ==
    WorkloadCalls \cup {<<"list", "nodes">>, <<"list", "pools">>, <<"setSizes">>}
        \cup {<<"drain", c[2]>> : c \in Range(DrainAll({}).drained)}

ScaleUpCalls == WorkloadCalls \cup {<<"list", "pools">>, <<"reset">>}

\* p1 holds three nodes, p2 two and p3 one; each pool autoscales or not
PoolInputs ==
    {[p \in Range(PoolNames) |->
        [autoScaling |-> a[p], saved |-> << >>,
         size |-> CASE p = "p1" -> 3 [] p = "p2" -> 2 [] OTHER -> 1]] :
        a \in [Range(PoolNames) -> BOOLEAN]}

\* n0 and n1 are in p1, n2 in p2, n3 in p3; n4 carries no pool the Provider knows
NodeInputs ==
    {[n \in Range(NodeNames) |->
        CASE n \in {"n0", "n1"} -> "p1" [] n = "n2" -> "p2" [] n = "n3" -> "p3" [] OTHER -> ""]}

ClusterDeployments ==
    {[n \in {"kube-dns", "web"} |-> IF n = "web" THEN w ELSE k] :
        w \in {d \in DeploymentInputs("web") :
                    /\ d.namespace = "default" /\ d.replicas = MaxReplicas
                    /\ d.annotations = EmptyMap /\ d.templateAnnotations = EmptyMap
                    /\ d.maxUnavailable \in {<< >>, <<FromInt(MaxReplicas)>>}
                    /\ (d.rolling <=> d.maxUnavailable /= << >>)},
        k \in {d \in DeploymentInputs("kube-dns") :
                    /\ d.namespace = "kube-system" /\ d.replicas = 1 /\ ~d.rolling
                    /\ d.annotations = EmptyMap /\ d.templateAnnotations = EmptyMap}}

ClusterDaemonSets ==
    {[n \in {"agent"} |-> d] :
        d \in {x \in DaemonSetInputs("agent") :
                    x.namespace = "kube-system" /\ x.templateAnnotations = EmptyMap}}

ClusterCronJobs ==
    {[n \in {"backup"} |-> j] :
        j \in {x \in CronJobInputs("backup") : x.annotations = EmptyMap /\ x.suspend /= <<TRUE>>}}

Init ==
    /\ deployments \in ClusterDeployments
    /\ daemonSets \in ClusterDaemonSets
    /\ cronJobs \in ClusterCronJobs
    /\ pools \in PoolInputs
    /\ nodes \in NodeInputs
    /\ nodePools = << >>
    /\ autoScaling = << >>
    /\ log = << >>
    /\ turndown = NoTurndown
    /\ inflight = << >>

Next ==
    \/ \E faults \in SingleFaults(ScaleDownCalls) :
            Len(log) < MaxCalls /\ ScaleDownCluster(faults)
    \/ \E faults \in SingleFaults(ScaleUpCalls) :
            Len(log) < MaxCalls /\ ScaleUpCluster(faults)

Spec == Init /\ [][Next]_vars

\* ------------------------------------------------------------------ claims on the cluster

\* the external calls of a logged operation that carry the tag
CallsTagged(e, tag) == {e.calls[i] : i \in {j \in 1..Len(e.calls) : e.calls[j][1] = tag}}

PoolSizes(ps) == [p \in DOMAIN ps |-> ps[p].size]

\* the pool of the anchor node, as the Provider reports it
AnchorPool == nodes[currentNode]

\* the fixed-size pools of a snapshot other than the anchor's
FixedPoolsOffAnchor(s) == {p \in DOMAIN s.pools : ~s.pools[p].autoScaling /\ p /= AnchorPool}

\* the replica, rollout and suspend values of the workloads of a snapshot
\* (an unset suspend flag counts as false)
RestorableValues(s) ==
    [deployments |-> [n \in DOMAIN s.deployments |->
                        [replicas |-> s.deployments[n].replicas,
                         rolling |-> s.deployments[n].rolling,
                         maxUnavailable |-> s.deployments[n].maxUnavailable]],
     cronJobs |-> [n \in DOMAIN s.cronJobs |-> s.cronJobs[n].suspend = <<TRUE>>]]

\* the last two operations were a ScaleDownCluster that returned no error
\* and then a ScaleUpCluster, and no external call of either failed
DownThenUp ==
    /\ Len(log) >= 2
    /\ Prev.op = "ScaleDownCluster" /\ Prev.faults = {} /\ ~Prev.err
    /\ Last.op = "ScaleUpCluster" /\ Last.faults = {}

\* C4: cluster-level reversibility: in every topology, when every external
\* call succeeds, a successful ScaleDownCluster followed by ScaleUpCluster
\* ends with no error, every pool at its size before the turndown, every
\* workload's replica, rollout and suspend values as before the scale-down,
\* and the TurndownRecord cleared
C4_Reversible ==
    DownThenUp =>
        /\ ~Last.err
        /\ PoolSizes(pools) = PoolSizes(Prev.pre.pools)
        /\ RestorableValues(Snapshot) = RestorableValues(Prev.pre)
        /\ nodePools = << >> /\ autoScaling = << >>

\* C5: in every reachable state, IsScaledDown() is true if and only if the
\* recorded target-pool set is non-empty
C5_IsScaledDownIffRecorded == IsScaledDown <=> Len(nodePools) /= 0

\* the last two operations were both ScaleDownCluster, the first returned
\* no error, and the second reached its resize step
DownTwice ==
    /\ Len(log) >= 2
    /\ Prev.op = "ScaleDownCluster" /\ ~Prev.err
    /\ Last.op = "ScaleDownCluster" /\ CallsTagged(Last, "resize") /= {}

\* C6: when ScaleDownCluster runs twice in a row, the first having returned
\* no error, the resize step of the second changes the size of no pool:
\* every pool it targets is already at size zero
C6_SecondResizeNoOp ==
    DownTwice =>
        /\ \A c \in CallsTagged(Last, "resize") :
                \A p \in Range(c[2]) : Last.pre.pools[p].size = 0
        /\ PoolSizes(pools) = PoolSizes(Last.pre.pools)

\* the second of two ScaleDownCluster calls resized a non-empty set of pools
\* that had a size before the first call, and its SetNodePoolSizes succeeded
C6_Witness ==
    /\ DownTwice
    /\ ~Last.err
    /\ \E c \in CallsTagged(Last, "resize") :
            \E p \in Range(c[2]) : Prev.pre.pools[p].size > 0

\* C7: whenever ScaleDownCluster asks the Provider for a resize, the pools
\* it names are exactly the fixed-size pools other than the anchor's, the
\* size it asks for is reached by exactly those pools, and the TurndownRecord
\* holds exactly that set; a ScaleDownCluster that returns no error has asked
C7_ResizeTargets ==
    (Len(log) >= 1 /\ Last.op = "ScaleDownCluster") =>
        /\ \A c \in CallsTagged(Last, "resize") :
                /\ Range(c[2]) = FixedPoolsOffAnchor(Last.pre)
                /\ nodePools = c[2]
                /\ \A p \in DOMAIN pools :
                        (p \notin FixedPoolsOffAnchor(Last.pre) \/ Last.err)
                            => pools[p].size = Last.pre.pools[p].size
                /\ \A p \in FixedPoolsOffAnchor(Last.pre) : ~Last.err => pools[p].size = 0
        /\ ~Last.err => CallsTagged(Last, "resize") /= {}

\* a ScaleDownCluster resized some pool to zero in a cluster that also has
\* an autoscaling pool and whose anchor pool is of fixed size
C7_Witness ==
    /\ Len(log) >= 1 /\ Last.op = "ScaleDownCluster" /\ ~Last.err
    /\ \E c \in CallsTagged(Last, "resize") : c[2] /= << >>
    /\ \E p \in DOMAIN pools : pools[p].autoScaling
    /\ ~pools[AnchorPool].autoScaling

\* the nodes a logged operation tried to drain
DrainedNodes(e) == {c[2] : c \in CallsTagged(e, "drain")}

\* a ScaleDownCluster that got to its drain loop
ReachedDrainLoop ==
    /\ Len(log) >= 1 /\ Last.op = "ScaleDownCluster"
    /\ CallsTagged(Last, "record") /= {}

C9_DenyListUntouched ==
    Len(log) >= 1 =>
        \A n \in KubecostFlattenerOmit :
            /\ \A c \in CallsTagged(Last, "patch") : c[3] /= n
            /\ n \in DOMAIN deployments => deployments[n] = Last.pre.deployments[n]
            /\ n \in DOMAIN daemonSets => daemonSets[n] = Last.pre.daemonSets[n]
            /\ n \in DOMAIN cronJobs => cronJobs[n] = Last.pre.cronJobs[n]

\* a ScaleDownCluster in a cluster none of whose pools autoscales
DownWithoutAutoscaling ==
    /\ Len(log) >= 1 /\ Last.op = "ScaleDownCluster"
    /\ \A p \in DOMAIN Last.pre.pools : ~Last.pre.pools[p].autoScaling

\* C10: when no pool autoscales, ScaleDownCluster patches and modifies no
\* deployment and no daemon set, and, when it returns no error, every
\* fixed-size pool other than the anchor's is at size zero
C10_OnlyCronJobs ==
    DownWithoutAutoscaling =>
        /\ deployments = Last.pre.deployments
        /\ daemonSets = Last.pre.daemonSets
        /\ \A c \in CallsTagged(Last, "patch") : c[2] = "cronjob"
        /\ ~Last.err => \A p \in FixedPoolsOffAnchor(Last.pre) : pools[p].size = 0

\* without an autoscaling pool, a ScaleDownCluster suspended a cron job and
\* resized the pools off the anchor to zero
C10_Witness ==
    /\ DownWithoutAutoscaling
    /\ ~Last.err
    /\ cronJobs /= Last.pre.cronJobs
    /\ \E p \in FixedPoolsOffAnchor(Last.pre) : Last.pre.pools[p].size > 0 /\ pools[p].size = 0
\* the Patch calls a fault can be
PatchFaults(e) == {f \in e.faults : f[1] = "patch"}

\* the Patch calls that the loops of Flatten, SuspendJobs, Expand and
\* ResumeJobs make when every item is processed
SuspendCalls(s) ==
    {<<"patch", "cronjob", n>> : n \in {m \in DOMAIN s.cronJobs : SuspendJob(s.cronJobs[m]).call}}

FlattenCalls(s) ==
    {<<"patch", "deployment", n>> :
        n \in {m \in DOMAIN s.deployments : FlattenDeployment(s.deployments[m]).call}}
    \cup {<<"patch", "daemonset", n>> :
        n \in {m \in DOMAIN s.daemonSets : FlattenDaemonSet(s.daemonSets[m]).call}}
    \cup SuspendCalls(s)

ResumeCalls(s) ==
    {<<"patch", "cronjob", n>> : n \in {m \in DOMAIN s.cronJobs : ResumeJob(s.cronJobs[m]).call}}

ExpandCalls(s) ==
    {<<"patch", "deployment", n>> :
        n \in {m \in DOMAIN s.deployments : ExpandDeployment(s.deployments[m]).call}}
    \cup {<<"patch", "daemonset", n>> :
        n \in {m \in DOMAIN s.daemonSets : ExpandDaemonSet(s.daemonSets[m]).call}}
    \cup ResumeCalls(s)

\* some pool of the snapshot autoscales
HasAutoscalingPool(s) == \E p \in DOMAIN s.pools : s.pools[p].autoScaling

\* the latest operation was op, and the only external calls set to fail,
\* if any, were Patch calls
OnlyPatchesFailed(op) ==
    /\ Len(log) >= 1 /\ Last.op = op
    /\ Last.faults = PatchFaults(Last)

\* C15: partial-failure tolerance: a failed patch of one workload does not
\* stop the loops from processing the remaining workloads (every Patch call
\* of a run without failure is still made, and every workload whose patch
\* did not fail ends flattened), and no error is returned for it
C15_PartialFailureTolerated ==
    /\ OnlyPatchesFailed("ScaleDownCluster")
            => /\ ~Last.err
               /\ CallsTagged(Last, "patch") =
                        (IF HasAutoscalingPool(Last.pre) THEN FlattenCalls(Last.pre)
                         ELSE SuspendCalls(Last.pre))
               /\ \A n \in DOMAIN cronJobs :
                        <<"patch", "cronjob", n>> \notin Last.faults
                            => cronJobs[n].suspend = <<TRUE>>
               /\ \A n \in DOMAIN deployments :
                        (HasAutoscalingPool(Last.pre)
                            /\ <<"patch", "deployment", n>> \notin Last.faults)
                            => deployments[n].replicas = 0
    /\ (OnlyPatchesFailed("ScaleUpCluster") /\ CallsTagged(Last, "reset") /= {})
            => /\ ~Last.err
               /\ CallsTagged(Last, "patch") =
                        (IF \/ (Last.pre.nodePools = << >> /\ HasAutoscalingPool(Last.pre))
                            \/ Last.pre.autoScaling = <<TRUE>>
                         THEN ExpandCalls(Last.pre) ELSE ResumeCalls(Last.pre))

\* the patch of the first deployment listed failed in a ScaleDownCluster,
\* and the deployment listed after it was flattened all the same
C15_Witness ==
    /\ OnlyPatchesFailed("ScaleDownCluster")
    /\ Last.faults = {<<"patch", "deployment", "kube-dns">>}
    /\ deployments["kube-dns"] = Last.pre.deployments["kube-dns"]
    /\ Last.pre.deployments["web"].replicas > 0
    /\ deployments["web"].replicas = 0
    /\ <<"patch", "deployment", "web">> \in CallsTagged(Last, "patch")
    /\ ~Last.err

\* the latest operation was a ScaleDownCluster one of whose two listings failed
ListingFailed ==
    /\ Len(log) >= 1 /\ Last.op = "ScaleDownCluster"
    /\ <<"list", "nodes">> \in Last.faults \/ <<"list", "pools">> \in Last.faults

\* C16: if listing the nodes or listing the node pools fails,
\* ScaleDownCluster returns the error without having patched a workload,
\* drained a node, asked for a resize or changed the TurndownRecord
C16_ListingFailureChangesNothing ==
    ListingFailed => (Last.err /\ Last.calls = << >> /\ Snapshot = Last.pre)

\* a listing failed in a cluster that has an autoscaling pool, workloads to
\* flatten, nodes to drain and pools to resize
C16_Witness ==
    /\ ListingFailed /\ Last.err
    /\ HasAutoscalingPool(Last.pre)
    /\ FixedPoolsOffAnchor(Last.pre) /= {}
    /\ FlattenCalls(Last.pre) /= {}

\* the latest operation was a ScaleUpCluster that found the TurndownRecord
\* empty, listed the pools, and found no pool of fixed size
NothingToRestore ==
    /\ Len(log) >= 1 /\ Last.op = "ScaleUpCluster"
    /\ Last.pre.nodePools = << >>
    /\ <<"list", "pools">> \notin Last.faults
    /\ \A p \in DOMAIN Last.pre.pools : Last.pre.pools[p].autoScaling

\* C17: ScaleUpCluster with an empty TurndownRecord and no pool of fixed
\* size returns an error and makes no Provider reset, no expand and no
\* resume of a job
C17_NothingToRestore ==
    NothingToRestore
        => /\ Last.err
           /\ Last.calls = << >>
           /\ WorkloadsOf(Snapshot) = WorkloadsOf(Last.pre)
           /\ pools = Last.pre.pools

\* after a ScaleDownCluster that flattened the workloads of a cluster with
\* no pool of fixed size, ScaleUpCluster found nothing to restore
C17_Witness ==
    /\ NothingToRestore
    /\ Len(log) >= 2 /\ Prev.op = "ScaleDownCluster" /\ ~Prev.err
    /\ CallsTagged(Prev, "patch") /= {}
    /\ Last.faults = {}
    /\ Last.err

\* ---------------------------------------------------------------------------
\* Environment preparation
\* ---------------------------------------------------------------------------

\* ktdm.strategy.TaintKey(): the key of the taint on the host node
TaintKey == "kubecost-turndown-taint"

\* The toleration the mutation appends
TurndownToleration == [key |-> TaintKey, effect |-> "NoSchedule", operator |-> "Exists"]

\* The node selector the mutation assigns
TurndownNodeSelector == [k \in {"kubecost-turndown-node"} |-> StrTrue]

\* The mutation handed to the patcher: append the toleration, replace the
\* node selector
PrepareMutation(d) ==
    [d EXCEPT !.tolerations = Append(@, TurndownToleration),
              !.nodeSelector = TurndownNodeSelector]

\* The patcher: the difference between the object before and after the
\* mutation, merged by the server into the live object; a list is replaced
\* as a whole by a merge patch
PatchTurndown(live, old, new) ==
    [tolerations  |-> FieldMerge(live.tolerations, FieldDiff(old.tolerations, new.tolerations)),
     nodeSelector |-> MapMerge(live.nodeSelector, MapDiff(old.nodeSelector, new.nodeSelector))]

\* The calls of PrepareTurndownEnvironment, in program order
PrepareCalls ==
    << <<"strategy", "CreateOrGetHostNode">>,
       <<"strategy", "AllowKubeDNS">>,
       <<"get", "deployment", "kubecost-turndown">>,
       <<"patch", "deployment", "kubecost-turndown">> >>

\* The calls made when the calls in faults fail: every call up to and
\* including the first failing one
PrepareCallsMade(faults) ==
    SubSeq(PrepareCalls, 1,
           IF \E i \in 1..Len(PrepareCalls) : PrepareCalls[i] \in faults
           THEN CHOOSE i \in 1..Len(PrepareCalls) :
                    /\ PrepareCalls[i] \in faults
                    /\ \A j \in 1..(i - 1) : PrepareCalls[j] \notin faults
           ELSE Len(PrepareCalls))

PrepareTurndownEnvironment(faults) ==
    LET made == PrepareCallsMade(faults)
        err  == made[Len(made)] \in faults
    IN  /\ turndown' = IF err THEN turndown
                       ELSE PatchTurndown(turndown, turndown, PrepareMutation(turndown))
        /\ log' = Logged(Entry("PrepareTurndownEnvironment", <<"kubecost-turndown">>,
                               err, made, faults))
        /\ UNCHANGED <<deployments, daemonSets, cronJobs, pools, nodes, nodePools,
                       autoScaling, inflight>>

\* Pod specs of the kubecost-turndown deployment before the first call
OtherToleration == [key |-> "dedicated", effect |-> "NoExecute", operator |-> "Exists"]

TurndownInputs ==
    [tolerations  : {<< >>, <<OtherToleration>>, <<TurndownToleration>>,
                     <<OtherToleration, TurndownToleration>>},
     nodeSelector : {EmptyMap, TurndownNodeSelector,
                     [k \in {"disk"} |-> <<"s", "s", "d">>]}]

InitPrepare ==
    /\ turndown \in TurndownInputs
    /\ inflight = << >>
    /\ deployments = NoWorkloads
    /\ daemonSets = NoWorkloads
    /\ cronJobs = NoWorkloads
    /\ pools = NoWorkloads
    /\ nodes = NoWorkloads
    /\ nodePools = << >>
    /\ autoScaling = << >>
    /\ log = << >>

NextPrepare ==
    \E faults \in SingleFaults(Range(PrepareCalls)) :
        /\ Len(log) < MaxCalls
        /\ PrepareTurndownEnvironment(faults)

SpecPrepare == InitPrepare /\ [][NextPrepare]_vars

PreparedTwice ==
    /\ Len(log) >= 2
    /\ Prev.op = "PrepareTurndownEnvironment" /\ ~Prev.err
    /\ Last.op = "PrepareTurndownEnvironment" /\ ~Last.err

\* C18: PrepareTurndownEnvironment is idempotent: after two successful calls
\* the tolerations and the node selector of the kubecost-turndown deployment
\* are what they were after the first call
C18_PrepareIdempotent ==
    PreparedTwice =>
        /\ turndown.tolerations = Last.pre.turndown.tolerations
        /\ turndown.nodeSelector = Last.pre.turndown.nodeSelector

\* ---------------------------------------------------------------------------
\* One flattener routine next to another actor
\* ---------------------------------------------------------------------------

\* The kind of object each routine takes
KindOf(op) ==
    IF op \in {"FlattenDeployment", "ExpandDeployment"} THEN "deployment"
    ELSE IF op \in {"FlattenDaemonSet", "ExpandDaemonSet"} THEN "daemonset"
    ELSE "cronjob"

RoutineOps ==
    {"FlattenDeployment", "ExpandDeployment", "FlattenDaemonSet", "ExpandDaemonSet",
     "SuspendJob", "ResumeJob"}

\* The live objects of a kind on the API server
LiveObjects(kind) ==
    IF kind = "deployment" THEN deployments
    ELSE IF kind = "daemonset" THEN daemonSets
    ELSE cronJobs

\* The routine run on the object it was handed
Routine(op, obj) ==
    CASE op = "FlattenDeployment" -> FlattenDeployment(obj)
      [] op = "ExpandDeployment"  -> ExpandDeployment(obj)
      [] op = "FlattenDaemonSet"  -> FlattenDaemonSet(obj)
      [] op = "ExpandDaemonSet"   -> ExpandDaemonSet(obj)
      [] op = "SuspendJob"        -> SuspendJob(obj)
      [] op = "ResumeJob"         -> ResumeJob(obj)

\* Patch(name, MergePatchType, patch) on the live object of a kind
ApplyPatch(kind, live, patch) ==
    IF kind = "deployment" THEN ApplyDeploymentPatch(live, patch)
    ELSE IF kind = "daemonset" THEN ApplyDaemonSetPatch(live, patch)
    ELSE ApplyCronJobPatch(live, patch)

\* The annotation maps an object of a kind carries
AnnotationFields(kind) ==
    IF kind = "deployment" THEN {"annotations", "templateAnnotations"}
    ELSE IF kind = "daemonset" THEN {"templateAnnotations"}
    ELSE {"annotations"}

\* The value the other actor writes under its own annotation key
OtherValue == <<"y">>

\* An update of the live object obj of a kind
SetLive(kind, name, obj) ==
    /\ deployments' = IF kind = "deployment"
                      THEN [deployments EXCEPT ![name] = obj] ELSE deployments
    /\ daemonSets' = IF kind = "daemonset"
                     THEN [daemonSets EXCEPT ![name] = obj] ELSE daemonSets
    /\ cronJobs' = IF kind = "cronjob"
                   THEN [cronJobs EXCEPT ![name] = obj] ELSE cronJobs

\* A routine is handed an object of the listing (passed by value)
BeginRoutine(op, name) ==
    /\ IF inflight = << >> THEN TRUE
       ELSE inflight[1].phase = "patched" /\ inflight[1].round < MaxCalls
    /\ name \in DOMAIN LiveObjects(KindOf(op))
    /\ inflight' = <<[op |-> op, name |-> name, listed |-> LiveObjects(KindOf(op))[name],
                      edited |-> {}, phase |-> "listed",
                      round |-> IF inflight = << >> THEN 1 ELSE inflight[1].round + 1]>>
    /\ UNCHANGED <<deployments, daemonSets, cronJobs, pools, nodes, nodePools,
                   autoScaling, log, turndown>>

\* Another actor writes its own annotation on the live object after the
\* listing and before the routine's patch
OtherActorEdits(field) ==
    /\ inflight /= << >>
    /\ inflight[1].phase = "listed"
    /\ field \in AnnotationFields(KindOf(inflight[1].op)) \ inflight[1].edited
    /\ LET kind == KindOf(inflight[1].op)
           name == inflight[1].name
           live == LiveObjects(kind)[name]
       IN  SetLive(kind, name, [live EXCEPT ![field] = MapSet(@, OtherKey, OtherValue)])
    /\ inflight' = <<[inflight[1] EXCEPT !.edited = @ \cup {field}]>>
    /\ UNCHANGED <<pools, nodes, nodePools, autoScaling, log, turndown>>

\* The routine mutates its copy, builds the patch from the copy before and
\* after, and the server merges the patch into the live object
EndRoutine(fail) ==
    /\ inflight /= << >>
    /\ inflight[1].phase = "listed"
    /\ LET op   == inflight[1].op
           kind == KindOf(op)
           name == inflight[1].name
           res  == Routine(op, inflight[1].listed)
           live == LiveObjects(kind)[name]
       IN  /\ SetLive(kind, name,
                      IF res.call /\ ~fail THEN ApplyPatch(kind, live, res.patch) ELSE live)
           /\ log' = Logged(Entry(op, <<name>>,
                                  (op = "ResumeJob" /\ res.err) \/ (res.call /\ fail),
                                  PatchCall(kind, name, res),
                                  IF fail THEN {<<"patch", kind, name>>} ELSE {}))
    /\ inflight' = <<[inflight[1] EXCEPT !.phase = "patched"]>>
    /\ UNCHANGED <<pools, nodes, nodePools, autoScaling, turndown>>

NextConcurrent ==
    \/ \E op \in RoutineOps, name \in {"web", "agent", "backup"} : BeginRoutine(op, name)
    \/ \E field \in {"annotations", "templateAnnotations"} : OtherActorEdits(field)
    \/ \E fail \in BOOLEAN : EndRoutine(fail)

SpecConcurrent == InitFlat /\ [][NextConcurrent]_vars

\* the routine in flight has applied its patch
PatchApplied ==
    /\ inflight /= << >>
    /\ inflight[1].phase = "patched"
    /\ Len(log) >= 1
    /\ Last.calls /= << >>
    /\ Last.faults = {}

\* C14: an annotation another actor wrote on the live object between the
\* listing and the patch, under a key the routine does not touch, is still
\* on the live object after the routine's patch has been applied
C14_PatchIsolation ==
    PatchApplied =>
        \A field \in inflight[1].edited :
            LET m == LiveObjects(KindOf(inflight[1].op))[inflight[1].name][field]
            IN  Has(m, OtherKey) /\ m[OtherKey] = OtherValue

\* ---------------------------------------------------------------------------
\* The replica capture across flatten and expand
\* ---------------------------------------------------------------------------

HasReplicaCapture(d) == Has(d.annotations, KubecostTurnDownReplicas)

ReplicaCapture(d) == d.annotations[KubecostTurnDownReplicas]

\* what one FlattenDeployment or ExpandDeployment may do to the replica
\* count and its capture, from the deployment b before to the deployment d
\* after
ReplicaStep(b, d) ==
    /\ (HasReplicaCapture(b) /\ HasReplicaCapture(d)) =>
            ReplicaCapture(d) = ReplicaCapture(b) /\ d.replicas = b.replicas
    /\ (~HasReplicaCapture(b) /\ HasReplicaCapture(d)) =>
            b.replicas > 0 /\ ReplicaCapture(d) = Itoa(b.replicas)
    /\ (HasReplicaCapture(b) /\ ~HasReplicaCapture(d)) =>
            Itoa(d.replicas) = ReplicaCapture(b)
    /\ (~HasReplicaCapture(b) /\ ~HasReplicaCapture(d)) =>
            d.replicas = b.replicas

CallsBefore(e, first, second) ==
    \A i, j \in 1..Len(e.calls) :
        (e.calls[i][1] = first /\ e.calls[j][1] = second) => i < j

\* C21: inside one ScaleDownCluster call every workload patch is issued
\* before the first drain, every drain is attempted before the resize
\* request, and the TurndownRecord is written before the resize request
C21_StepOrder ==
    (Len(log) >= 1 /\ Last.op = "ScaleDownCluster") =>
        /\ CallsBefore(Last, "patch", "drain")
        /\ CallsBefore(Last, "patch", "resize")
        /\ CallsBefore(Last, "drain", "resize")
        /\ CallsBefore(Last, "record", "resize")
        /\ CallsTagged(Last, "resize") /= {} => CallsTagged(Last, "record") /= {}

\* a ScaleDownCluster that patched workloads, drained nodes, wrote the
\* record and asked for the resize
C21_Witness ==
    /\ Len(log) >= 1 /\ Last.op = "ScaleDownCluster"
    /\ CallsTagged(Last, "patch") /= {}
    /\ CallsTagged(Last, "drain") /= {}
    /\ CallsTagged(Last, "record") /= {}
    /\ CallsTagged(Last, "resize") /= {}

\* the workloads of a snapshot
WorkloadsOfSnapshot(s) ==
    [deployments |-> s.deployments, daemonSets |-> s.daemonSets, cronJobs |-> s.cronJobs]

\* the workloads that the workload step of ScaleDownCluster leaves when it
\* starts from a snapshot and none of its calls fails
FlattenedWorkloads(s) ==
    IF HasAutoscalingPool(s)
    THEN Flatten([ws |-> WorkloadsOfSnapshot(s), calls |-> << >>, err |-> FALSE], {}).ws
    ELSE SuspendJobs([ws |-> WorkloadsOfSnapshot(s), calls |-> << >>, err |-> FALSE], {}).ws

\* the latest operation was a ScaleDownCluster whose SetNodePoolSizes failed
ResizeFailed ==
    /\ Len(log) >= 1
    /\ Last.op = "ScaleDownCluster"
    /\ Last.faults = {<<"setSizes">>}

\* a ScaleDownCluster whose SetNodePoolSizes failed, and then a ScaleUpCluster
ResizeFailedThenUp ==
    /\ Len(log) >= 2
    /\ Prev.op = "ScaleDownCluster" /\ Prev.faults = {<<"setSizes">>}
    /\ Last.op = "ScaleUpCluster"

\* C22: when SetNodePoolSizes fails, ScaleDownCluster returns the error,
\* the workloads stay flattened and the drains stay made, the pools keep
\* their sizes, and the TurndownRecord holds the target pools and the
\* autoscaling flag; a ScaleUpCluster that follows resets the recorded pools
C22_ResizeFailure ==
    /\ ResizeFailed =>
            /\ Last.err
            /\ Workloads = FlattenedWorkloads(Last.pre)
            /\ DrainedNodes(Last) =
                    {n \in DOMAIN nodes : n /= currentNode /\ nodes[n] \in DOMAIN Last.pre.pools
                                          /\ ~Last.pre.pools[nodes[n]].autoScaling}
            /\ PoolSizes(pools) = PoolSizes(Last.pre.pools)
            /\ Range(nodePools) = FixedPoolsOffAnchor(Last.pre)
            /\ autoScaling = <<HasAutoscalingPool(Last.pre)>>
    /\ (ResizeFailedThenUp /\ Last.pre.nodePools /= << >>) =>
            CallsTagged(Last, "reset") = {<<"reset", Last.pre.nodePools>>}

\* SetNodePoolSizes failed after workloads were patched and nodes drained,
\* with a pool to resize
C22_Witness ==
    /\ ResizeFailed
    /\ Workloads /= WorkloadsOfSnapshot(Last.pre)
    /\ DrainedNodes(Last) /= {}
    /\ nodePools /= << >>
    /\ Last.pre.nodePools = << >>

\* the failed calls among those a ScaleUpCluster makes once its pools are
\* known: ResetNodePoolSizes, the listing of cron jobs, and with the
\* autoscaling flag as the step takes it also the listings of deployments
\* and daemon sets
ScaleUpFatal(e, as) ==
    {f \in e.faults :
        \/ f = <<"reset">>
        \/ f = <<"list", "cronJobs">>
        \/ (as = <<TRUE>> /\ f \in {<<"list", "deployments">>, <<"list", "daemonSets">>})}

\* C23: ScaleUpCluster clears the TurndownRecord only when ResetNodePoolSizes
\* and the workload step returned no error; when either fails it returns the
\* error and the recorded pool set and autoscaling flag are retained
C23_ClearAfterSuccess ==
    (Len(log) >= 1 /\ Last.op = "ScaleUpCluster") =>
        /\ ~Last.err =>
                /\ nodePools = << >> /\ autoScaling = << >>
                /\ CallsTagged(Last, "reset") /= {}
                /\ <<"reset">> \notin Last.faults
                /\ <<"list", "cronJobs">> \notin Last.faults
        /\ (Last.pre.nodePools /= << >> /\ ScaleUpFatal(Last, Last.pre.autoScaling) /= {}) =>
                Last.err
        /\ (Last.pre.nodePools /= << >> /\ Last.err) =>
                /\ ScaleUpFatal(Last, Last.pre.autoScaling) /= {}
                /\ nodePools = Last.pre.nodePools
                /\ autoScaling = Last.pre.autoScaling

\* with a record in place, a ScaleUpCluster failed in its workload step after
\* the reset, and the record is still there
C23_Witness ==
    /\ Len(log) >= 2 /\ Last.op = "ScaleUpCluster"
    /\ Last.pre.nodePools /= << >>
    /\ CallsTagged(Last, "reset") /= {}
    /\ <<"reset">> \notin Last.faults
    /\ Last.err
    /\ nodePools = Last.pre.nodePools

====
